---- MODULE Spec2Model ----
(***************************************************************************)
(* A model of the goszakup ETL: the paginated API client                   *)
(* (src/src/goszakup_client.py), the batch persistence layer               *)
(* (src/src/database.py) and the task graph of the Airflow DAG             *)
(* (src/dags/goszakup_etl_dag.py).                                         *)
(*                                                                         *)
(* The specifications share the module: SpecFetch drives one client        *)
(* through _paginate / _make_request against a nondeterministic server,    *)
(* SpecDB and SpecDrift drive one GoszakupDB connection against one table, *)
(* SpecDag schedules the DAG's tasks, each leaving the other parts'        *)
(* variables untouched; SpecLoad runs one task callable, or run_full_etl,  *)
(* through the client and the connection.                                  *)
(***************************************************************************)
EXTENDS Integers, Sequences, FiniteSets, Bags, TLC

VARIABLES
    \* ---- GoszakupAPIClient and one _paginate call ----
    retry_count,   \* self.retry_count
    pc,            \* where the _paginate call stands
    attempt,       \* _make_request: the for-loop variable
    cur_endpoint,  \* _make_request: the endpoint argument of the running call
    all_items,     \* _paginate: all_items
    next_page,     \* _paginate: next_page
    response,      \* _paginate: response (what _make_request returned)
    http,          \* the HTTP exchanges of the running _make_request call
    sleeps,        \* the time.sleep calls of the running _make_request call
    served,        \* the items the server sent in 2xx bodies during this _paginate call
    visited,       \* the endpoints answered 2xx during this _paginate call
    nreq,          \* HTTP requests issued during this _paginate call
    nfail,         \* HTTP requests of this _paginate call that failed
    \* ---- GoszakupDB: one connection and the table it writes ----
    schema,        \* the table's definition in the database: its columns and uniqueness
    table,         \* the table's committed rows (a bag)
    txn,           \* self.conn's transaction status: idle, intrans or aborted
    clock,         \* the latest value datetime.now() has returned
    last,          \* the latest GoszakupDB call: its outcome and its storage calls
    lastWrite,     \* per key, the value the latest successful upsert_batch carried for it
    \* ---- one run of the DAG goszakup_full_etl ----
    task_state,    \* per task, the state of its task instance
    tries,         \* per task, the attempts an unfinished task instance has started
    \* ---- one task callable of the DAG, or GoszakupETL.run_full_etl ----
    job,           \* the callable that runs: a task id, or "run_full_etl"
    cpc,           \* where the callable stands
    step,          \* how many of the job's loads have been entered
    invoked,       \* the loads entered so far: [method, table], in order
    conn,          \* the GoszakupDB's connection: none, open or closed
    fetched,       \* what the API method of the latest load returned, as documents
    result,        \* what the latest load gave its caller: pending, None or raised
    outcome,       \* how the callable ended: none, returned or raised
    writes,        \* batch writes issued by the latest load
    commits,       \* commits issued by the latest load
    step_failed,   \* whether the latest load's fetch gave up or its batch write raised
    any_failed,    \* whether that happened to any load of this callable
    stats,         \* print_statistics: the counts collected so far
    \* ---- the latest batch write's arguments, and a batch persisted twice ----
    arg_data,      \* insert_batch / upsert_batch / insert_jsonb_batch: the data argument
    sql_columns,   \* insert_batch / upsert_batch: columns
    sql_values,    \* insert_batch / upsert_batch: values
    after_first,   \* the table as the first ingestion of arg_data left it
    again,         \* whether the latest call persisted arg_data a second time
    \* ---- the objects the running task callables hold ----
    db_of,         \* per task, the GoszakupDB its callable constructed (0: none)
    api_of,        \* per task, the GoszakupAPIClient its callable constructed (0: none)
    \* ---- one run of test_api_endpoints ----
    test_i,        \* how many of the tests the for loop has gone through
    results,       \* results: the counters success, failed and empty
    returned,      \* the function's return value, None before it returns
    \* ---- print_statistics' count queries ----
    stat_errors,   \* per table counted so far, whether its own SELECT raised
    \* ---- the tables of the database and the tasks that write them ----
    loaded,        \* per task, the loads its running callable has gone through
    contents,      \* per table, the batch writes made to it, in order
    written_by     \* per task, the batch writes it made, in order

fetchVars == <<retry_count, pc, attempt, cur_endpoint, all_items, next_page,
               response, http, sleeps, served, visited, nreq, nfail>>

dbVars == <<schema, table, txn, clock, last, lastWrite>>

dagVars == <<task_state, tries>>

loadVars == <<job, cpc, step, invoked, conn, fetched, result, outcome, writes, commits,
              step_failed, any_failed, stats>>

callVars == <<arg_data, sql_columns, sql_values, after_first, again>>

objVars == <<db_of, api_of>>

testVars == <<test_i, results, returned>>

statVars == <<stat_errors>>

tableVars == <<loaded, contents, written_by>>

restVars == <<callVars, objVars, testVars, statVars, tableVars>>

vars == <<fetchVars, dbVars, dagVars, loadVars, restVars>>

----------------------------------------------------------------------------
(* Bounds of the model *)

\* the largest retry_count a client is constructed with
MaxRetry == 3
\* the most HTTP requests the server answers during one _paginate call
MaxRequests == 4
\* the longest batch handed to a batch write
MaxBatch == 2
\* the most rows the table holds
MaxRows == 2
\* the latest time datetime.now() returns
MaxClock == 1
\* execute_values' page_size (psycopg2's default is 100), scaled to the batches
PageSize == 1

----------------------------------------------------------------------------
(* Values *)

BASE_URL == "https://ows.goszakup.gov.kz"

\* time.sleep(self.delay): the delay argument's default
Delay == 1

\* the endpoint _paginate is called with, and the cursor paths a server hands out
Endpoint == "/v3/subject"
Paths == {Endpoint, "/v3/subject?page=next&search_after=1",
          "/v3/subject?page=next&search_after=2"}

\* a string is a sequence of tokens: BASE_URL or a path; "" is the empty sequence
Urls == {<<BASE_URL, p>> : p \in Paths} \cup {<<p>> : p \in Paths}

None == [t |-> "None"]
Str(s) == [t |-> "str", v |-> s]
Num(n) == [t |-> "int", v |-> n]

\* the item lists a page may carry
ItemLists == {<<>>, <<1>>, <<2, 1>>}

\* the JSON object of a 2xx response: "items" and "next_page" may each be absent
JsonItems == {[t |-> "absent"]} \cup {[t |-> "list", v |-> l] : l \in ItemLists}
JsonNext == {[t |-> "absent"], [t |-> "null"], Str(<<>>)} \cup {Str(u) : u \in Urls}
Bodies == [items : JsonItems, next_page : JsonNext]

\* what raise_for_status / the transport raise on: 0 is a network error or timeout
FailStatuses == {0, 401, 429, 500}
IsTransient(s) == s = 0 \/ s = 429 \/ s >= 500
IsClientError(s) == s >= 400 /\ s < 500 /\ s # 429

----------------------------------------------------------------------------
(* Pure helpers of the client *)

\* str.replace(self.BASE_URL, ''): every occurrence of BASE_URL is removed
Replace(s) == SelectSeq(s, LAMBDA tok : tok # BASE_URL)

FalsyOrNoItems(r) ==
    \/ r.t = "None"
    \/ r.t = "dict" /\ (r.items.t = "absent" \/ r.items.v = <<>>)

\* Python truthiness of the value _make_request returned: None and {} are falsy
Falsy(r) ==
    \/ r.t = "None"
    \/ r.t = "dict" /\ r.items.t = "absent" /\ r.next_page.t = "absent"

\* response.get('items', [])
GetItems(r) == IF r.items.t = "absent" THEN <<>> ELSE r.items.v

\* response.get('next_page'): an absent key and a JSON null both give None
GetNextPage(r) == IF r.next_page.t = "str" THEN r.next_page ELSE None

\* `not next_page or next_page == ''`
NoNextPage(np) == np.t = "None" \/ np.v = <<>>

Pow2Flat(n) == 1

\* 2 ** attempt
RECURSIVE Pow2(_)
Pow2(n) == IF n <= 0 THEN 1 ELSE 2 * Pow2(n - 1)

\* response.json() of a 2xx response
AsDict(body) == [t |-> "dict", items |-> body.items, next_page |-> body.next_page]

ExtendDropSeen(all, items) ==
    all \o SelectSeq(items, LAMBDA x : \A i \in 1..Len(all) : all[i] # x)

\* all_items.extend(items)
Extend(all, items) == all \o items

ShouldRetryOffByOne(att, rc) == att < rc

\* `if attempt < self.retry_count - 1`: a failed attempt that is not the last is
\* followed by a backoff wait and another attempt
ShouldRetry(att, rc) == att < rc - 1

BackoffSleepUnlessFirst(sl, att) ==
    IF att = 0 THEN sl ELSE Append(sl, [kind |-> "backoff", secs |-> Pow2(att)])

\* time.sleep(2 ** attempt)
BackoffSleep(sl, att) == Append(sl, [kind |-> "backoff", secs |-> Pow2(att)])

PaceSleepTwice(sl) ==
    Append(Append(sl, [kind |-> "pace", secs |-> Delay]), [kind |-> "pace", secs |-> Delay])

\* time.sleep(self.delay)
PaceSleep(sl) == Append(sl, [kind |-> "pace", secs |-> Delay])

----------------------------------------------------------------------------
(* GoszakupAPIClient: _paginate and _make_request *)

ClientInit ==
    /\ retry_count \in 0..MaxRetry
    /\ pc = "idle"
    /\ attempt = 0
    /\ cur_endpoint = <<>>
    /\ all_items = <<>>
    /\ next_page = None
    /\ response = None
    /\ http = <<>>
    /\ sleeps = <<>>
    /\ served = <<>>
    /\ visited = {}
    /\ nreq = 0
    /\ nfail = 0

\* _paginate is entered: all_items = [], next_page = None
Paginate ==
    /\ pc \in {"idle", "done"}
    /\ pc' = "call"
    /\ all_items' = <<>>
    /\ next_page' = None
    /\ response' = None
    /\ served' = <<>>
    /\ visited' = {}
    /\ nreq' = 0
    /\ nfail' = 0
    /\ http' = <<>>
    /\ sleeps' = <<>>
    /\ attempt' = 0
    /\ cur_endpoint' = <<>>
    /\ UNCHANGED retry_count

\* the top of the while loop: _make_request is called with the endpoint, or with
\* next_page stripped of BASE_URL; an empty range(retry_count) falls through and
\* returns None
CallMakeRequest ==
    /\ pc = "call"
    /\ cur_endpoint' = IF NoNextPage(next_page) THEN <<Endpoint>> ELSE Replace(next_page.v)
    /\ attempt' = 0
    /\ http' = <<>>
    /\ sleeps' = <<>>
    /\ IF retry_count <= 0
         THEN pc' = "ret" /\ response' = None
         ELSE pc' = "attempt" /\ UNCHANGED response
    /\ UNCHANGED <<retry_count, all_items, next_page, served, visited, nreq, nfail>>

\* one pass of the for loop that ends in a 2xx: sleep(self.delay), return response.json()
AttemptOK(body) ==
    /\ pc = "attempt"
    /\ nreq < MaxRequests
    /\ nreq' = nreq + 1
    /\ http' = Append(http, [ep |-> cur_endpoint, status |-> 200, body |-> AsDict(body)])
    /\ sleeps' = PaceSleep(sleeps)
    /\ response' = AsDict(body)
    /\ served' = served \o GetItems(body)
    /\ visited' = visited \cup {cur_endpoint}
    /\ pc' = "ret"
    /\ UNCHANGED <<retry_count, attempt, cur_endpoint, all_items, next_page, nfail>>

\* one pass of the for loop that ends in a RequestException: sleep(2 ** attempt) and
\* go round again, or return None after the last attempt
AttemptFail(status) ==
    /\ pc = "attempt"
    /\ nreq < MaxRequests
    /\ nreq' = nreq + 1
    /\ nfail' = nfail + 1
    /\ http' = Append(http, [ep |-> cur_endpoint, status |-> status, body |-> None])
    /\ IF ShouldRetry(attempt, retry_count)
         THEN /\ sleeps' = BackoffSleep(sleeps, attempt)
              /\ attempt' = attempt + 1
              /\ pc' = "attempt"
              /\ UNCHANGED response
         ELSE /\ response' = None
              /\ pc' = "ret"
              /\ UNCHANGED <<sleeps, attempt>>
    /\ UNCHANGED <<retry_count, cur_endpoint, all_items, next_page, served, visited>>

\* the rest of the while body: break on a falsy response, extend all_items, read
\* next_page, break when there is none
ProcessPage ==
    /\ pc = "ret"
    /\ IF Falsy(response)
         THEN /\ pc' = "done"
              /\ UNCHANGED <<all_items, next_page>>
         ELSE /\ all_items' = Extend(all_items, GetItems(response))
              /\ next_page' = GetNextPage(response)
              /\ pc' = IF NoNextPage(GetNextPage(response)) THEN "done" ELSE "call"
    /\ UNCHANGED <<retry_count, attempt, cur_endpoint, response, http, sleeps,
                   served, visited, nreq, nfail>>

\* a client that is constructed and not used
ClientIdle ==
    /\ retry_count = 3
    /\ pc = "idle"
    /\ attempt = 0
    /\ cur_endpoint = <<>>
    /\ all_items = <<>>
    /\ next_page = None
    /\ response = None
    /\ http = <<>>
    /\ sleeps = <<>>
    /\ served = <<>>
    /\ visited = {}
    /\ nreq = 0
    /\ nfail = 0

----------------------------------------------------------------------------
(* GoszakupDB: values *)

NULL == "NULL"

\* the columns of a typed table and the values its rows and the items carry
Cols == {"id", "val"}
ColVals == [id |-> {"1", "2"}, val |-> {"a", "b"}]

\* an item is a dict: a function from some of the columns to values
ItemsOver(keysets) ==
    {f \in UNION {[D -> ColVals.id \cup ColVals.val] : D \in keysets} :
        \A c \in DOMAIN f : f[c] \in ColVals[c]}

\* the items of a batch whose records all carry every column
Items == ItemsOver({Cols})

\* the items of a batch whose records may each lack columns
DriftItems == ItemsOver(SUBSET Cols)

\* the items handed to insert_jsonb_batch: documents, opaque to it
Docs == {f \in Items : f["id"] = "1"}

SeqsUpTo(S, n) == UNION {[1..k -> S] : k \in 0..n}

\* the table definitions the connection may face: a document table (data,
\* created_at) with or without a unique index on data, or a typed table (id, val)
\* with no constraint, UNIQUE (id) or PRIMARY KEY (id)
Schemas ==
    {[kind |-> "jsonb", uniq |-> u] : u \in {"none", "unique"}}
    \cup {[kind |-> "typed", uniq |-> u] : u \in {"none", "unique", "pkey"}}

\* the conflict_columns the callers pass
ConflictChoices == {<<"id">>}

Range(s) == {s[i] : i \in DOMAIN s}

Add(tbl, row) == tbl (+) SetToBag({row})
Remove(tbl, row) == tbl (-) SetToBag({row})
Rows(tbl) == BagToSet(tbl)

\* psycopg2.extras.Json(record): the adapter that writes the dict as a JSON document
Json(record) == [json |-> record]

\* record.get(col)
Get(record, col) == IF col \in DOMAIN record THEN record[col] ELSE NULL

\* columns = list(data[0].keys())
Columns(data) == DOMAIN data[1]

ValuesOwnKeys(data, columns) == [i \in 1..Len(data) |-> data[i]]

\* values = [[record.get(col) for col in columns] for record in data]
Values(data, columns) == [i \in 1..Len(data) |-> [c \in columns |-> Get(data[i], c)]]

UpdateColumnsKeysOnly(columns, conflict_columns) ==
    {c \in columns : c \in Range(conflict_columns)}

\* update_columns = [col for col in columns if col not in conflict_columns]
UpdateColumns(columns, conflict_columns) ==
    {c \in columns : c \notin Range(conflict_columns)}

JsonbValuesDistinct(data, stamp) ==
    LET firsts == {i \in DOMAIN data : \A j \in 1..(i - 1) : data[j] # data[i]}
        RECURSIVE Build(_)
        Build(i) == IF i > Len(data) THEN <<>>
                    ELSE (IF i \in firsts
                          THEN <<[data |-> Json(data[i]), created_at |-> stamp]>>
                          ELSE <<>>) \o Build(i + 1)
    IN  Build(1)

\* values = [(Json(record), datetime.now()) for record in data]
JsonbValues(data, stamp) ==
    [i \in DOMAIN data |-> [data |-> Json(data[i]), created_at |-> stamp]]

\* execute_values cuts the argument list into pages of page_size rows, one
\* statement each
RECURSIVE Pages(_)
Pages(rows) ==
    IF Len(rows) = 0 THEN <<>>
    ELSE IF Len(rows) <= PageSize THEN <<rows>>
    ELSE <<SubSeq(rows, 1, PageSize)>> \o Pages(SubSeq(rows, PageSize + 1, Len(rows)))

----------------------------------------------------------------------------
(* The statements the batch writes send, as PostgreSQL executes them.  A
   statement works on the transaction's view of the table, row by row, and
   gives [ok, tbl]: an error leaves the view as it was before the statement. *)

\* a row of a typed table from the values of one record: a column the statement
\* does not name is NULL
FullRow(v) == [c \in Cols |-> IF c \in DOMAIN v THEN v[c] ELSE NULL]

HasKeyNever(tbl, k) == FALSE

HasKey(tbl, k) == \E r \in Rows(tbl) : r["id"] = k

\* INSERT INTO t (columns) VALUES ... ON CONFLICT DO NOTHING
RECURSIVE InsertDoNothing(_, _, _)
InsertDoNothing(tbl, rows, k) ==
    IF k > Len(rows) THEN [ok |-> TRUE, tbl |-> tbl]
    ELSE LET row == FullRow(rows[k]) IN
         IF row["id"] = NULL
         THEN IF schema.uniq = "pkey"
              THEN [ok |-> FALSE, tbl |-> tbl]
              ELSE InsertDoNothing(Add(tbl, row), rows, k + 1)
         ELSE IF schema.uniq # "none" /\ HasKey(tbl, row["id"])
              THEN InsertDoNothing(tbl, rows, k + 1)
              ELSE InsertDoNothing(Add(tbl, row), rows, k + 1)

\* INSERT INTO t (data, created_at) VALUES ... ON CONFLICT DO NOTHING
RECURSIVE InsertJsonbDoNothing(_, _, _)
InsertJsonbDoNothing(tbl, rows, k) ==
    IF k > Len(rows) THEN [ok |-> TRUE, tbl |-> tbl]
    ELSE IF schema.uniq = "unique" /\ \E r \in Rows(tbl) : r.data = rows[k].data
         THEN InsertJsonbDoNothing(tbl, rows, k + 1)
         ELSE InsertJsonbDoNothing(Add(tbl, rows[k]), rows, k + 1)

\* INSERT INTO t (columns) VALUES ... ON CONFLICT (id) DO UPDATE SET c = EXCLUDED.c:
\* a row whose key is in the table overwrites the update columns of that row; a
\* second row of the same statement with the same key is an error
RECURSIVE InsertDoUpdate(_, _, _, _, _)
InsertDoUpdate(tbl, rows, update_columns, touched, k) ==
    IF k > Len(rows) THEN [ok |-> TRUE, tbl |-> tbl]
    ELSE LET row == FullRow(rows[k])
             key == row["id"]
         IN  IF key = NULL
             THEN IF schema.uniq = "pkey"
                  THEN [ok |-> FALSE, tbl |-> tbl]
                  ELSE InsertDoUpdate(Add(tbl, row), rows, update_columns, touched, k + 1)
             ELSE IF key \in touched
             THEN [ok |-> FALSE, tbl |-> tbl]
             ELSE IF HasKey(tbl, key)
             THEN LET old == CHOOSE r \in Rows(tbl) : r["id"] = key
                      new == [c \in Cols |-> IF c \in update_columns THEN row[c] ELSE old[c]]
                  IN  InsertDoUpdate(Add(Remove(tbl, old), new), rows, update_columns,
                                     touched \cup {key}, k + 1)
             ELSE InsertDoUpdate(Add(tbl, row), rows, update_columns,
                                 touched \cup {key}, k + 1)

\* one statement of a batch write: q names the query, rows are the page's values
Statement(q, tbl, rows) ==
    LET failed == [ok |-> FALSE, tbl |-> tbl]
        r == CASE q.op = "insert_jsonb_batch" ->
                    IF schema.kind # "jsonb" THEN failed
                    ELSE InsertJsonbDoNothing(tbl, rows, 1)
               [] q.op = "insert_batch" ->
                    IF schema.kind # "typed" \/ q.columns = {} THEN failed
                    ELSE InsertDoNothing(tbl, rows, 1)
               [] q.op = "upsert_batch" ->
                    IF \/ schema.kind # "typed"
                       \/ q.columns = {}
                       \/ q.update_columns = {}
                       \/ Range(q.conflict_columns) # {"id"}
                       \/ schema.uniq = "none"
                    THEN failed
                    ELSE InsertDoUpdate(tbl, rows, q.update_columns, {}, 1)
    IN  IF r.ok THEN r ELSE failed

\* execute_values: the pages one after the other, until one fails; failAt names the
\* page whose statement the server ends with an error of its own (a timeout, a
\* deadlock, a lost lock), 0 for none.  Gives [ok, tbl, executes].
RECURSIVE ExecuteValues(_, _, _, _, _)
ExecuteValues(q, tbl, pages, k, failAt) ==
    IF k > Len(pages) THEN [ok |-> TRUE, tbl |-> tbl, executes |-> k - 1]
    ELSE IF failAt = k THEN [ok |-> FALSE, tbl |-> tbl, executes |-> k]
    ELSE LET r == Statement(q, tbl, pages[k]) IN
         IF r.ok THEN ExecuteValues(q, r.tbl, pages, k + 1, failAt)
         ELSE [ok |-> FALSE, tbl |-> tbl, executes |-> k]

RollbackKeepsWork(committed, work) == work

\* self.conn.rollback(): the transaction's writes are dropped
Rollback(committed, work) == committed

\* self.conn.commit(): the transaction's writes become the table
Commit(committed, work) == work

IsEmptyBatchNever(data) == FALSE

\* `if not data`
IsEmptyBatch(data) == data = <<>>

NoCalls == [cursor |-> 0, executes |-> 0, commit |-> 0, rollback |-> 0]

\* whether columns = list(data[0].keys()) names a column and is every record's key
\* set, so that record.get(col) finds each record's every field and nothing else
SameKeys(data) ==
    \/ data = <<>>
    \/ /\ DOMAIN data[1] # {}
       /\ \A i \in 1..Len(data) : DOMAIN data[i] = DOMAIN data[1]

\* the call record before any call
NoCall == [op |-> "connect", n |-> 0, result |-> "returned", value |-> None,
           uniform |-> TRUE, calls |-> NoCalls]

\* for each key, the value the batch carries for it last, "-" when it carries none
LastValues(data) ==
    [k \in ColVals.id |->
        LET at == {i \in 1..Len(data) : Get(data[i], "id") = k} IN
        IF at = {} THEN "-"
        ELSE Get(data[CHOOSE i \in at : \A j \in at : j <= i], "val")]

\* the part the three batch writes share: `if not data: return`, then the
\* statements in one transaction, commit, and on any exception rollback and raise.
\* failAt names the page whose statement fails, Len(pages) + 1 the commit, 0 nothing.
\* Gives the table, the transaction status and the call's record afterwards.
BatchOutcome(q, data, rows, failAt) ==
    IF IsEmptyBatch(data)
    THEN [table |-> table, txn |-> txn, committed |-> FALSE,
          last |-> [op |-> q.op, n |-> 0, result |-> "returned", value |-> None,
                    uniform |-> TRUE, calls |-> NoCalls]]
    ELSE LET pages == Pages(rows)
             run == IF txn = "aborted"
                    THEN [ok |-> FALSE, tbl |-> table, executes |-> 1]
                    ELSE ExecuteValues(q, table, pages, 1, failAt)
             committed == run.ok /\ failAt # Len(pages) + 1
         IN  [table |-> IF committed THEN Commit(table, run.tbl)
                        ELSE Rollback(table, run.tbl),
              txn |-> "idle",
              committed |-> committed,
              last |-> [op |-> q.op, n |-> Len(data),
                        result |-> IF committed THEN "returned" ELSE "raised",
                        value |-> None,
                        uniform |-> SameKeys(data),
                        calls |-> [cursor |-> 1, executes |-> run.executes,
                                   commit |-> IF run.ok THEN 1 ELSE 0,
                                   rollback |-> IF committed THEN 0 ELSE 1]]]

BatchWrite(q, data, rows, failAt) ==
    /\ failAt \in 0..(Len(Pages(rows)) + 1)
    /\ \E o \in {BatchOutcome(q, data, rows, failAt)} :
          /\ BagCardinality(o.table) <= MaxRows
          /\ table' = o.table
          /\ txn' = o.txn
          /\ last' = o.last
          /\ lastWrite' = IF o.committed /\ q.op = "upsert_batch"
                          THEN LET lv == LastValues(data) IN
                               [k \in ColVals.id |->
                                  IF lv[k] = "-" THEN lastWrite[k] ELSE lv[k]]
                          ELSE lastWrite

----------------------------------------------------------------------------
(* GoszakupDB: the operations *)

DBInit ==
    /\ schema \in Schemas
    /\ table = EmptyBag
    /\ txn = "idle"
    /\ clock = 0
    /\ last = NoCall
    /\ lastWrite = [k \in ColVals.id |-> "-"]

\* insert_batch(table, data), the table being a typed one
insert_batch(data, failAt) ==
    /\ schema.kind = "typed"
    /\ BatchWrite([op |-> "insert_batch",
                   columns |-> IF data = <<>> THEN {} ELSE Columns(data)],
                  data,
                  IF data = <<>> THEN <<>> ELSE Values(data, Columns(data)),
                  failAt)
    /\ UNCHANGED <<schema, clock>>

\* insert_jsonb_batch(table, data), the table being a document table: stamp is what
\* datetime.now() returns while the values are built (the clock is coarser than the
\* list comprehension)
insert_jsonb_batch(data, stamp, failAt) ==
    /\ schema.kind = "jsonb"
    /\ stamp >= clock
    /\ BatchWrite([op |-> "insert_jsonb_batch"],
                  data,
                  JsonbValues(data, stamp),
                  failAt)
    /\ clock' = IF data = <<>> THEN clock ELSE stamp
    /\ UNCHANGED schema

\* upsert_batch(table, data, conflict_columns), the table being a typed one
upsert_batch(data, conflict_columns, failAt) ==
    /\ schema.kind = "typed"
    /\ BatchWrite([op |-> "upsert_batch",
                   columns |-> IF data = <<>> THEN {} ELSE Columns(data),
                   conflict_columns |-> conflict_columns,
                   update_columns |-> IF data = <<>> THEN {}
                                      ELSE UpdateColumns(Columns(data), conflict_columns)],
                  data,
                  IF data = <<>> THEN <<>> ELSE Values(data, Columns(data)),
                  failAt)
    /\ UNCHANGED <<schema, clock>>

\* get_table_count(table_name): SELECT COUNT(*) with no commit and no rollback; an
\* exception is logged and 0 is returned
get_table_count(fails) ==
    /\ IF txn = "aborted" \/ fails
         THEN /\ txn' = "aborted"
              /\ last' = [op |-> "get_table_count", n |-> 0, result |-> "returned",
                          value |-> Num(0), uniform |-> TRUE,
                          calls |-> [NoCalls EXCEPT !.cursor = 1, !.executes = 1]]
         ELSE /\ txn' = "intrans"
              /\ last' = [op |-> "get_table_count", n |-> BagCardinality(table),
                          result |-> "returned",
                          value |-> Num(BagCardinality(table)), uniform |-> TRUE,
                          calls |-> [NoCalls EXCEPT !.cursor = 1, !.executes = 1]]
    /\ UNCHANGED <<schema, table, clock, lastWrite>>

\* a database that no call is made to
DBIdle ==
    /\ schema = [kind |-> "jsonb", uniq |-> "none"]
    /\ table = EmptyBag
    /\ txn = "idle"
    /\ clock = 0
    /\ last = NoCall
    /\ lastWrite = [k \in ColVals.id |-> "-"]

----------------------------------------------------------------------------
(* The DAG goszakup_full_etl: its tasks, its wiring, and the scheduler's rule
   for a PythonOperator with the default trigger rule (all upstream tasks
   succeeded) and default_args' retries *)

Tasks ==
    {"check_db_connection", "load_references", "load_subjects", "load_rnu",
     "load_plans", "load_announcements", "load_applications", "load_lots",
     "load_contracts", "load_acts", "load_payments", "print_statistics"}

\* default_args['retries']
Retries == 1

EdgesPlansUnwired ==
    {<<"check_db_connection", "load_references">>,
     <<"load_references", "load_subjects">>,
     <<"load_references", "load_rnu">>,
     <<"load_references", "load_plans">>,
     <<"load_references", "load_announcements">>,
     <<"load_announcements", "load_applications">>,
     <<"load_announcements", "load_lots">>,
     <<"load_lots", "load_contracts">>,
     <<"load_contracts", "load_acts">>,
     <<"load_contracts", "load_payments">>,
     <<"load_subjects", "print_statistics">>,
     <<"load_rnu", "print_statistics">>,
     <<"load_acts", "print_statistics">>,
     <<"load_payments", "print_statistics">>}

\* the >> lines: <<a, b>> is a >> b
Edges ==
    {<<"check_db_connection", "load_references">>,
     <<"load_references", "load_subjects">>,
     <<"load_references", "load_rnu">>,
     <<"load_references", "load_plans">>,
     <<"load_plans", "load_announcements">>,
     <<"load_announcements", "load_applications">>,
     <<"load_announcements", "load_lots">>,
     <<"load_lots", "load_contracts">>,
     <<"load_contracts", "load_acts">>,
     <<"load_contracts", "load_payments">>,
     <<"load_subjects", "print_statistics">>,
     <<"load_rnu", "print_statistics">>,
     <<"load_acts", "print_statistics">>,
     <<"load_payments", "print_statistics">>}

Upstream(t) == {e[1] : e \in {d \in Edges : d[2] = t}}

\* the tasks from which a task is reached along the wiring: the sets reached in at
\* most n steps, for n up to the number of tasks
RECURSIVE AncestorsWithin(_)
AncestorsWithin(n) ==
    IF n = 0 THEN [t \in Tasks |-> {}]
    ELSE LET prev == AncestorsWithin(n - 1) IN
         [t \in Tasks |-> Upstream(t) \cup UNION {prev[u] : u \in Upstream(t)}]
AncestorsOf == AncestorsWithin(Cardinality(Tasks))
Ancestors(t) == AncestorsOf[t]

DagInit ==
    /\ task_state = [t \in Tasks |-> "none"]
    /\ tries = [t \in Tasks |-> 0]

\* the scheduler queues a task instance and a worker starts its callable
StartTask(t) ==
    /\ task_state[t] \in {"none", "up_for_retry"}
    /\ \A u \in Upstream(t) : task_state[u] = "success"
    /\ task_state' = [task_state EXCEPT ![t] = "running"]
    /\ tries' = [tries EXCEPT ![t] = @ + 1]

\* the callable returns
TaskSucceeds(t) ==
    /\ task_state[t] = "running"
    /\ task_state' = [task_state EXCEPT ![t] = "success"]
    /\ tries' = [tries EXCEPT ![t] = 0]

\* the callable raises: the task instance is retried while tries are left
TaskFails(t) ==
    /\ task_state[t] = "running"
    /\ task_state' = [task_state EXCEPT ![t] =
                     IF tries[t] <= Retries THEN "up_for_retry" ELSE "failed"]
    /\ tries' = [tries EXCEPT ![t] = IF tries[t] <= Retries THEN @ ELSE 0]

\* a task one of whose upstream tasks failed is never started
UpstreamFailed(t) ==
    /\ task_state[t] = "none"
    /\ \E u \in Upstream(t) : task_state[u] \in {"failed", "upstream_failed"}
    /\ task_state' = [task_state EXCEPT ![t] = "upstream_failed"]
    /\ UNCHANGED tries

\* a DAG no run of which is scheduled
DagIdle ==
    /\ task_state = [t \in Tasks |-> "none"]
    /\ tries = [t \in Tasks |-> 0]

----------------------------------------------------------------------------
(* GoszakupETL and the task callables.  A load is one pass of a load_* method's
   try body for one table: the API method, `if data`, insert_jsonb_batch.  The
   client is the one above (every API method the loads use is a _paginate
   call; the endpoint's name plays no part), the connection writes the table of
   the load at hand (the tables are modelled alike, by one table). *)

\* the DAG's RETRY_COUNT, the retry_count of the client create_api_client builds
RETRY_COUNT == 3

\* the keys of load_references' dict, in its order
RefTables ==
    <<
      "ref_lots_status", "ref_trade_methods", "ref_units", "ref_months",
      "ref_pln_point_status", "ref_subject_type", "ref_finsource", "ref_abp",
      "ref_point_type", "ref_kato", "ref_countries", "ref_ekrb",
      "ref_fkrb_program", "ref_fkrb_subprogram", "ref_justification",
      "ref_amendment_agreem_type", "ref_amendm_agreem_justif", "ref_budget_type",
      "ref_type_trade", "ref_buy_status", "ref_po_st", "ref_comm_roles",
      "ref_contract_status", "ref_contract_agr_form", "ref_contract_year_type",
      "ref_currency", "ref_contract_cancel", "ref_contract_type", "ref_reason",
      "ref_buy_lot_reject_reason" >>

LoadMethodsContractsFirst ==
    <<"load_references", "load_subjects", "load_rnu", "load_plans",
      "load_announcements", "load_applications", "load_contracts", "load_lots",
      "load_acts", "load_payments">>

\* the load methods, in the order run_full_etl calls them
LoadMethods ==
    <<"load_references", "load_subjects", "load_rnu", "load_plans",
      "load_announcements", "load_applications", "load_lots", "load_contracts",
      "load_acts", "load_payments">>

TableOfLotsTwice ==
    [load_subjects |-> "subjects", load_rnu |-> "rnu", load_plans |-> "plans",
     load_announcements |-> "announcements", load_applications |-> "lots",
     load_lots |-> "lots", load_contracts |-> "contracts", load_acts |-> "acts",
     load_payments |-> "payments"]

\* the table each entity's load method writes
TableOf ==
    [load_subjects |-> "subjects", load_rnu |-> "rnu", load_plans |-> "plans",
     load_announcements |-> "announcements", load_applications |-> "applications",
     load_lots |-> "lots", load_contracts |-> "contracts", load_acts |-> "acts",
     load_payments |-> "payments"]

\* print_statistics' tables
StatTables ==
    <<"subjects", "rnu", "plans", "announcements", "applications", "lots",
      "contracts", "acts", "payments">>

\* the task callables that run a load method: the task id is the method's name
LoadTasks == Range(LoadMethods)

Jobs == Tasks \cup {"run_full_etl"}

\* the loads of one load method: load_references loops over its dict
LoadsOf(method) ==
    IF method = "load_references"
    THEN [i \in 1..Len(RefTables) |-> [method |-> method, table |-> RefTables[i]]]
    ELSE <<[method |-> method, table |-> TableOf[method]]>>

RECURSIVE LoadsFrom(_)
LoadsFrom(i) ==
    IF i > Len(LoadMethods) THEN <<>> ELSE LoadsOf(LoadMethods[i]) \o LoadsFrom(i + 1)

\* the loads each job runs, in order
Steps ==
    [j \in Jobs |-> IF j = "run_full_etl" THEN LoadsFrom(1)
                    ELSE IF j \in LoadTasks THEN LoadsOf(j)
                    ELSE <<>>]

\* the pages the server sends while a load runs, and how its requests fail
LoadBodies ==
    {[items |-> [t |-> "list", v |-> <<>>], next_page |-> [t |-> "absent"]],
     [items |-> [t |-> "list", v |-> <<1>>], next_page |-> [t |-> "absent"]],
     [items |-> [t |-> "list", v |-> <<1>>],
      next_page |-> Str(<<BASE_URL, "/v3/subject?page=next&search_after=1">>)]}
LoadFailStatuses == {500}

\* an item of a page, as the JSON object it is
AsDoc(x) == [id |-> "1", val |-> IF x = 1 THEN "a" ELSE "b"]
AsDocs(items) == [i \in DOMAIN items |-> AsDoc(items[i])]

FetchReturnedEarly == pc \in {"done", "call"}

\* `data = api_method()` has been assigned: the _paginate call has returned
FetchReturned == pc = "done"

HasDataAlways(d) == TRUE

HasDataIfComplete(d) == d # <<>> /\ response # None

\* `if data`
HasData(d) == d # <<>>

LoadResultReraised(raised) == IF raised THEN "raised" ELSE "None"

\* `except Exception as e: logger.error(...)`: whatever the try body raised, the
\* load ends without an exception and the method goes on to return None
LoadResult(raised) == "None"

CloseConnNever(c) == c

\* GoszakupDB.close(): `if self.conn: self.conn.close()`
CloseConn(c) == IF c = "open" THEN "closed" ELSE c

LoadInit ==
    /\ job \in Jobs
    /\ cpc = "idle"
    /\ step = 0
    /\ invoked = <<>>
    /\ conn = IF job = "run_full_etl" THEN "open" ELSE "none"
    /\ fetched = <<>>
    /\ result = "pending"
    /\ outcome = "none"
    /\ writes = 0
    /\ commits = 0
    /\ step_failed = FALSE
    /\ any_failed = FALSE
    /\ stats = <<>>

\* the tasks upstream of the job's task have succeeded, nothing else has run
DagReady ==
    /\ task_state = [t \in Tasks |->
                        IF job \in Tasks /\ t \in Ancestors(job) THEN "success" ELSE "none"]
    /\ tries = [t \in Tasks |-> 0]

\* a task callable is entered: create_api_client, create_db_connection; connect
\* raises before the try statement, with no connection made
RunCallable(connects) ==
    /\ job \in Tasks
    /\ cpc \in {"idle", "ended"}
    /\ StartTask(job)
    /\ conn' = IF connects THEN "open" ELSE "none"
    /\ txn' = "idle"
    /\ cpc' = IF connects THEN "step" ELSE "ended"
    /\ outcome' = IF connects THEN "none" ELSE "raised"
    /\ step' = 0
    /\ invoked' = <<>>
    /\ fetched' = <<>>
    /\ result' = "pending"
    /\ writes' = 0
    /\ commits' = 0
    /\ step_failed' = FALSE
    /\ any_failed' = FALSE
    /\ stats' = <<>>
    /\ UNCHANGED <<job, schema, table, clock, last, lastWrite>>
    /\ UNCHANGED fetchVars

\* run_full_etl is entered, on a client and a connection its caller made
run_full_etl ==
    /\ job = "run_full_etl"
    /\ cpc = "idle"
    /\ cpc' = "step"
    /\ UNCHANGED <<job, step, invoked, conn, fetched, result, outcome, writes, commits,
                   step_failed, any_failed, stats>>
    /\ UNCHANGED <<fetchVars, dbVars, dagVars>>

\* the next load is entered and calls its API method
CallApi ==
    /\ cpc = "step"
    /\ step < Len(Steps[job])
    /\ Paginate
    /\ step' = step + 1
    /\ invoked' = Append(invoked, Steps[job][step + 1])
    /\ cpc' = "fetching"
    /\ fetched' = <<>>
    /\ result' = "pending"
    /\ writes' = 0
    /\ commits' = 0
    /\ step_failed' = FALSE
    /\ UNCHANGED <<job, conn, outcome, any_failed, stats>>
    /\ UNCHANGED <<dbVars, dagVars>>

\* the API method has returned: `if data: self.db.insert_jsonb_batch(table, data)`,
\* and the except clause of the load.  An exception that left the load would leave
\* the method, run_full_etl's `except: raise` and the callable's `except: raise`
\* and `finally: db.close()`.
EndLoad(stamp, failAt) ==
    /\ cpc = "fetching"
    /\ FetchReturned
    /\ fetched' = AsDocs(all_items)
    /\ IF HasData(AsDocs(all_items))
         THEN /\ insert_jsonb_batch(AsDocs(all_items), stamp, failAt)
              /\ writes' = writes + 1
              /\ commits' = commits + last'.calls.commit
         ELSE /\ stamp = clock
              /\ failAt = 0
              /\ UNCHANGED <<dbVars, writes, commits>>
    /\ LET raised == HasData(AsDocs(all_items)) /\ last'.result = "raised"
           failed == response = None \/ raised
       IN  /\ step_failed' = failed
           /\ any_failed' = (any_failed \/ failed)
           /\ result' = LoadResult(raised)
           /\ IF LoadResult(raised) = "raised"
                THEN /\ cpc' = "ended"
                     /\ outcome' = "raised"
                     /\ conn' = IF job = "run_full_etl" THEN conn ELSE CloseConn(conn)
                ELSE /\ cpc' = "step"
                     /\ UNCHANGED <<outcome, conn>>
    /\ UNCHANGED <<job, step, invoked, stats>>
    /\ UNCHANGED <<fetchVars, dagVars>>

\* print_statistics: one pass of `for table in tables`
StatCount(fails) ==
    /\ cpc = "step"
    /\ job = "print_statistics"
    /\ Len(stats) < Len(StatTables)
    /\ get_table_count(fails)
    /\ stats' = Append(stats, last'.value.v)
    /\ UNCHANGED <<job, cpc, step, invoked, conn, fetched, result, outcome, writes,
                   commits, step_failed, any_failed>>
    /\ UNCHANGED <<fetchVars, dagVars>>

\* the job's loads are over: an entity's callable counts the table's rows; every
\* callable closes its connection (check_db_connection in its try body, the others
\* in `finally`) and returns; run_full_etl returns
CallableReturns(fails) ==
    /\ cpc = "step"
    /\ step = Len(Steps[job])
    /\ job = "print_statistics" => Len(stats) = Len(StatTables)
    /\ IF job \in LoadTasks \ {"load_references"}
         THEN get_table_count(fails)
         ELSE ~fails /\ UNCHANGED dbVars
    /\ conn' = IF job = "run_full_etl" THEN conn ELSE CloseConn(conn)
    /\ outcome' = "returned"
    /\ cpc' = "ended"
    /\ UNCHANGED <<job, step, invoked, fetched, result, writes, commits, step_failed,
                   any_failed, stats>>
    /\ UNCHANGED <<fetchVars, dagVars>>

\* the scheduler records how the callable ended
TaskEnds ==
    /\ cpc = "ended"
    /\ job \in Tasks
    /\ IF outcome = "returned" THEN TaskSucceeds(job) ELSE TaskFails(job)
    /\ UNCHANGED <<fetchVars, dbVars, loadVars>>

\* the scheduler starts a task downstream of the job's
StartDownstream(d) ==
    /\ cpc = "ended"
    /\ job \in Upstream(d)
    /\ StartTask(d)
    /\ UNCHANGED <<fetchVars, dbVars, loadVars>>

\* no callable runs
LoadIdle ==
    /\ job = "none"
    /\ cpc = "idle"
    /\ step = 0
    /\ invoked = <<>>
    /\ conn = "none"
    /\ fetched = <<>>
    /\ result = "pending"
    /\ outcome = "none"
    /\ writes = 0
    /\ commits = 0
    /\ step_failed = FALSE
    /\ any_failed = FALSE
    /\ stats = <<>>

----------------------------------------------------------------------------
(* GoszakupDB: what insert_batch and upsert_batch send for a batch, and a batch
   persisted a second time *)

\* no batch write has been made
CallIdle ==
    /\ arg_data = <<>>
    /\ sql_columns = {}
    /\ sql_values = <<>>
    /\ after_first = EmptyBag
    /\ again = FALSE

\* the columns and the values the call builds from its data before it opens a cursor
Sends(data) ==
    /\ arg_data' = data
    /\ sql_columns' = IF IsEmptyBatch(data) THEN {} ELSE Columns(data)
    /\ sql_values' = IF IsEmptyBatch(data) THEN <<>> ELSE Values(data, Columns(data))
    /\ UNCHANGED <<after_first, again>>

\* a batch is persisted: the table it leaves is remembered
Persisted(data) ==
    /\ arg_data' = data
    /\ after_first' = table'
    /\ again' = FALSE
    /\ UNCHANGED <<sql_columns, sql_values>>

\* the batch of the latest call, which returned, is handed to the same method again
PersistedAgain(op) ==
    /\ last.op = op
    /\ last.result = "returned"
    /\ again' = TRUE
    /\ UNCHANGED <<arg_data, after_first, sql_columns, sql_values>>

----------------------------------------------------------------------------
(* The objects of the task callables.  An object is known by its identity, which
   is its own for as long as the object lives. *)

\* no callable runs
ObjIdle ==
    /\ db_of = [t \in Tasks |-> 0]
    /\ api_of = [t \in Tasks |-> 0]

\* the objects the running callables hold
Live == ({db_of[t] : t \in Tasks} \cup {api_of[t] : t \in Tasks}) \ {0}

NewShared(live) == 1

\* GoszakupDB(**DB_CONFIG), GoszakupAPIClient(...): a constructor call gives an object
\* that is none of the live ones
New(live) ==
    CHOOSE n \in 1..(Cardinality(live) + 1) :
        n \notin live /\ \A m \in 1..(n - 1) : m \in live

\* the head of a task callable: a load_* callable calls create_api_client() and
\* create_db_connection(), check_db_connection and print_statistics only the latter
StartCallable(t) ==
    /\ StartTask(t)
    /\ LET api == IF t \in LoadTasks THEN New(Live) ELSE 0
           db == New((Live \cup {api}) \ {0})
       IN  /\ api_of' = [api_of EXCEPT ![t] = api]
           /\ db_of' = [db_of EXCEPT ![t] = db]

\* the callable is left: db.close(), and its locals are gone
LeaveCallable(t) ==
    /\ api_of' = [api_of EXCEPT ![t] = 0]
    /\ db_of' = [db_of EXCEPT ![t] = 0]

----------------------------------------------------------------------------
(* print_statistics' count queries, on a database whose tables hold rows *)

\* the rows earlier loads may have left in a table
StoredRows == {[data |-> Json(x), created_at |-> 0] : x \in Docs}

\* print_statistics has counted no table
StatIdle == stat_errors = <<>>

\* print_statistics is entered
RunStatistics(connects) ==
    /\ job = "print_statistics"
    /\ RunCallable(connects)
    /\ stat_errors' = <<>>

\* one pass of `for table in tables`: fails tells whether the table's own SELECT
\* raises (the table is missing)
StatCountOf(fails) ==
    /\ StatCount(fails)
    /\ stat_errors' = Append(stat_errors, fails)

----------------------------------------------------------------------------
(* The tables the tasks write.  A batch write is known by the task that made it. *)

\* the tables a task's callable writes
TablesOf(t) == {Steps[t][i].table : i \in 1..Len(Steps[t])}

AllTables == UNION {TablesOf(t) : t \in Tasks}

\* for each table, a task that writes it
WriterOf == [tbl \in AllTables |-> CHOOSE t \in Tasks : tbl \in TablesOf(t)]

\* no task has run
TableIdle ==
    /\ loaded = [t \in Tasks |-> 0]
    /\ contents = [tbl \in AllTables |-> <<>>]
    /\ written_by = [t \in Tasks |-> <<>>]

\* a task's callable is entered
LoadTaskStarts(t) ==
    /\ StartTask(t)
    /\ loaded' = [loaded EXCEPT ![t] = 0]
    /\ UNCHANGED <<contents, written_by>>

\* the running callable goes through its next load:
\* self.db.insert_jsonb_batch(table, data)
LoadTaskWrites(t) ==
    /\ task_state[t] = "running"
    /\ loaded[t] < Len(Steps[t])
    /\ LET tbl == Steps[t][loaded[t] + 1].table IN
          /\ contents' = [contents EXCEPT ![tbl] = Append(@, [task |-> t])]
          /\ written_by' = [written_by EXCEPT ![t] = Append(@, [table |-> tbl])]
    /\ loaded' = [loaded EXCEPT ![t] = @ + 1]
    /\ UNCHANGED dagVars

\* the callable returns, its loads over
LoadTaskReturns(t) ==
    /\ loaded[t] = Len(Steps[t])
    /\ TaskSucceeds(t)
    /\ UNCHANGED tableVars

\* the callable raises: create_db_connection() does, before the try statement (the
\* loads themselves raise nothing)
LoadTaskRaises(t) ==
    /\ loaded[t] = 0
    /\ TaskFails(t)
    /\ UNCHANGED tableVars

----------------------------------------------------------------------------
(* test_api_endpoints *)

\* the tests list: each test's expect_data
Tests ==
    <<TRUE, TRUE, TRUE, TRUE, TRUE, TRUE, TRUE, TRUE, TRUE, TRUE, FALSE, FALSE>>

\* how func() ends: it raises, or it returns the list _paginate built, whose items
\* are what the server sent, JSON objects or other JSON values
Raises == [t |-> "raise"]
FuncOutcomes ==
    {Raises} \cup {[t |-> "list", v |-> l] : l \in {<<>>, <<"dict">>, <<"int">>, <<"dict", "int">>}}

NoResults == [success |-> 0, failed |-> 0, empty |-> 0]

\* results[k] += 1
Incr(res, k) == [res EXCEPT ![k] = @ + 1]

\* len(data) for a list, 1 for a dict, 0 otherwise
CountOf(d) == IF d.t = "list" THEN Len(d.v) ELSE IF d.t = "dict" THEN 1 ELSE 0

\* first_item.keys() raises AttributeError unless data[0] is a dict
KeysRaises(d) == d.t = "list" /\ Len(d.v) > 0 /\ d.v[1] # "dict"

\* the try statement of the loop body, d being how func() ended
TestBody(res, expect_data, d) ==
    IF d = Raises THEN Incr(res, "failed")
    ELSE IF d = None THEN Incr(res, "failed")
    ELSE IF CountOf(d) = 0 /\ expect_data THEN Incr(res, "empty")
    ELSE IF CountOf(d) = 0 THEN Incr(res, "success")
    ELSE IF KeysRaises(d) THEN Incr(Incr(res, "success"), "failed")
    ELSE Incr(res, "success")

TestInit ==
    /\ test_i = 0
    /\ results = NoResults
    /\ returned = None

\* one pass of the for loop
RunTest(d) ==
    /\ returned = None
    /\ test_i < Len(Tests)
    /\ test_i' = test_i + 1
    /\ results' = TestBody(results, Tests[test_i + 1], d)
    /\ UNCHANGED returned

\* the loop is over: return 0 if results['failed'] == 0, else 1
ReturnCode ==
    /\ returned = None
    /\ test_i = Len(Tests)
    /\ returned' = IF results.failed = 0 THEN Num(0) ELSE Num(1)
    /\ UNCHANGED <<test_i, results>>

\* nothing of the rest has run
RestIdle == CallIdle /\ ObjIdle /\ TestInit /\ StatIdle /\ TableIdle

----------------------------------------------------------------------------
(* The specifications *)

InitFetch == ClientInit /\ DBIdle /\ DagIdle /\ LoadIdle /\ RestIdle
NextFetch ==
    \/ Paginate /\ UNCHANGED <<dbVars, dagVars, loadVars, restVars>>
    \/ CallMakeRequest /\ UNCHANGED <<dbVars, dagVars, loadVars, restVars>>
    \/ \E body \in Bodies : AttemptOK(body) /\ UNCHANGED <<dbVars, dagVars, loadVars, restVars>>
    \/ \E status \in FailStatuses : AttemptFail(status) /\ UNCHANGED <<dbVars, dagVars, loadVars, restVars>>
    \/ ProcessPage /\ UNCHANGED <<dbVars, dagVars, loadVars, restVars>>
SpecFetch == InitFetch /\ [][NextFetch]_vars

InitDB == DBInit /\ ClientIdle /\ DagIdle /\ LoadIdle /\ RestIdle
NextDB ==
    \/ \E data \in SeqsUpTo(Items, MaxBatch), failAt \in 0..(MaxBatch + 1) :
          insert_batch(data, failAt) /\ UNCHANGED <<fetchVars, dagVars, loadVars, restVars>>
    \/ \E data \in SeqsUpTo(Docs, MaxBatch), failAt \in 0..(MaxBatch + 1) :
          \E stamp \in clock..MaxClock :
              insert_jsonb_batch(data, stamp, failAt) /\ UNCHANGED <<fetchVars, dagVars, loadVars, restVars>>
    \/ \E data \in SeqsUpTo(Items, MaxBatch), cc \in ConflictChoices,
          failAt \in 0..(MaxBatch + 1) :
          upsert_batch(data, cc, failAt) /\ UNCHANGED <<fetchVars, dagVars, loadVars, restVars>>
    \/ \E fails \in BOOLEAN : get_table_count(fails) /\ UNCHANGED <<fetchVars, dagVars, loadVars, restVars>>
SpecDB == InitDB /\ [][NextDB]_vars

\* batches whose records differ in their keys, written to a typed table by
\* insert_batch and upsert_batch, the server raising no error of its own
InitDrift == DBInit /\ schema.kind = "typed" /\ ClientIdle /\ DagIdle /\ LoadIdle /\ RestIdle
NextDrift ==
    \/ \E data \in SeqsUpTo(DriftItems, MaxBatch) :
          insert_batch(data, 0) /\ UNCHANGED <<fetchVars, dagVars, loadVars, restVars>>
    \/ \E data \in SeqsUpTo(DriftItems, MaxBatch), cc \in ConflictChoices :
          upsert_batch(data, cc, 0) /\ UNCHANGED <<fetchVars, dagVars, loadVars, restVars>>
SpecDrift == InitDrift /\ [][NextDrift]_vars

InitDag == DagInit /\ ClientIdle /\ DBIdle /\ LoadIdle /\ RestIdle
NextDag ==
    \/ \E t \in Tasks : StartTask(t) /\ UNCHANGED <<fetchVars, dbVars, loadVars, restVars>>
    \/ \E t \in Tasks : TaskSucceeds(t) /\ UNCHANGED <<fetchVars, dbVars, loadVars, restVars>>
    \/ \E t \in Tasks : TaskFails(t) /\ UNCHANGED <<fetchVars, dbVars, loadVars, restVars>>
    \/ \E t \in Tasks : UpstreamFailed(t) /\ UNCHANGED <<fetchVars, dbVars, loadVars, restVars>>
SpecDag == InitDag /\ [][NextDag]_vars

InitLoad ==
    /\ ClientInit /\ retry_count = RETRY_COUNT
    /\ DBInit /\ schema.kind = "jsonb"
    /\ LoadInit
    /\ DagReady
    /\ RestIdle
NextLoad ==
    \/ \E connects \in BOOLEAN : RunCallable(connects) /\ UNCHANGED restVars
    \/ run_full_etl /\ UNCHANGED restVars
    \/ CallApi /\ UNCHANGED restVars
    \/ cpc = "fetching" /\ CallMakeRequest /\ UNCHANGED <<dbVars, dagVars, loadVars, restVars>>
    \/ \E body \in LoadBodies :
          cpc = "fetching" /\ AttemptOK(body) /\ UNCHANGED <<dbVars, dagVars, loadVars, restVars>>
    \/ \E status \in LoadFailStatuses :
          cpc = "fetching" /\ AttemptFail(status) /\ UNCHANGED <<dbVars, dagVars, loadVars, restVars>>
    \/ cpc = "fetching" /\ ProcessPage /\ UNCHANGED <<dbVars, dagVars, loadVars, restVars>>
    \/ \E failAt \in {0, 1} : EndLoad(clock, failAt) /\ UNCHANGED restVars
    \/ \E fails \in BOOLEAN : StatCount(fails) /\ UNCHANGED restVars
    \/ \E fails \in BOOLEAN : CallableReturns(fails) /\ UNCHANGED restVars
    \/ TaskEnds /\ UNCHANGED restVars
    \/ \E d \in Tasks : StartDownstream(d) /\ UNCHANGED restVars
SpecLoad == InitLoad /\ [][NextLoad]_vars

\* a server whose cursor chain is finite and repeats no cursor: a 2xx body carries a
\* next_page only if it names a page not requested before and the chain has a page
\* left, the chain being short enough for the server to answer every request that
\* retry_count allows (MaxRequests in all)
FreshCursor(body) ==
    IF body.next_page.t # "str" THEN TRUE
    ELSE IF body.next_page.v = <<>> THEN TRUE
    ELSE /\ Replace(body.next_page.v) \notin (visited \cup {cur_endpoint})
         /\ nreq + 1 + retry_count <= MaxRequests

\* one _paginate call after the other against that server; every step the call can
\* take is taken in the end (the interpreter runs, each request is answered or fails)
NextChain ==
    \/ Paginate /\ UNCHANGED <<dbVars, dagVars, loadVars, restVars>>
    \/ CallMakeRequest /\ UNCHANGED <<dbVars, dagVars, loadVars, restVars>>
    \/ \E body \in Bodies :
          FreshCursor(body) /\ AttemptOK(body) /\ UNCHANGED <<dbVars, dagVars, loadVars, restVars>>
    \/ \E status \in FailStatuses : AttemptFail(status) /\ UNCHANGED <<dbVars, dagVars, loadVars, restVars>>
    \/ ProcessPage /\ UNCHANGED <<dbVars, dagVars, loadVars, restVars>>
SpecChain == InitFetch /\ [][NextChain]_vars /\ WF_vars(NextChain)

\* a batch whose records differ in their keys, handed to insert_batch or to
\* upsert_batch on a fresh connection
InitValues ==
    /\ DBInit /\ schema.kind = "typed"
    /\ ClientIdle /\ DagIdle /\ LoadIdle /\ RestIdle
NextValues ==
    \/ \E data \in SeqsUpTo(DriftItems, MaxBatch) :
          /\ last = NoCall
          /\ insert_batch(data, 0) /\ Sends(data)
          /\ UNCHANGED <<fetchVars, dagVars, loadVars, objVars, testVars, statVars, tableVars>>
    \/ \E data \in SeqsUpTo(DriftItems, MaxBatch), cc \in ConflictChoices :
          /\ last = NoCall
          /\ upsert_batch(data, cc, 0) /\ Sends(data)
          /\ UNCHANGED <<fetchVars, dagVars, loadVars, objVars, testVars, statVars, tableVars>>
SpecValues == InitValues /\ [][NextValues]_vars

\* a table with a uniqueness constraint (a unique index on data; UNIQUE (id) or
\* PRIMARY KEY (id)), batches persisted with insert_jsonb_batch and insert_batch and
\* persisted again, the server raising no error of its own
InitTwice ==
    /\ DBInit /\ schema.uniq # "none"
    /\ ClientIdle /\ DagIdle /\ LoadIdle /\ RestIdle
NextTwice ==
    \/ \E data \in SeqsUpTo(Docs, MaxBatch), stamp \in clock..MaxClock :
          insert_jsonb_batch(data, stamp, 0) /\ Persisted(data) /\ UNCHANGED <<fetchVars, dagVars, loadVars, objVars, testVars, statVars, tableVars>>
    \/ \E stamp \in clock..MaxClock :
          insert_jsonb_batch(arg_data, stamp, 0) /\ PersistedAgain("insert_jsonb_batch")
          /\ UNCHANGED <<fetchVars, dagVars, loadVars, objVars, testVars, statVars, tableVars>>
    \/ \E data \in SeqsUpTo(Items, MaxBatch) :
          insert_batch(data, 0) /\ Persisted(data) /\ UNCHANGED <<fetchVars, dagVars, loadVars, objVars, testVars, statVars, tableVars>>
    \/ insert_batch(arg_data, 0) /\ PersistedAgain("insert_batch") /\ UNCHANGED <<fetchVars, dagVars, loadVars, objVars, testVars, statVars, tableVars>>
SpecTwice == InitTwice /\ [][NextTwice]_vars

\* one run of the DAG, each running callable holding the objects it constructed
InitObjects == DagInit /\ ClientIdle /\ DBIdle /\ LoadIdle /\ RestIdle
NextObjects ==
    \/ \E t \in Tasks : StartCallable(t) /\ UNCHANGED <<fetchVars, dbVars, loadVars, callVars, testVars, statVars, tableVars>>
    \/ \E t \in Tasks : TaskSucceeds(t) /\ LeaveCallable(t) /\ UNCHANGED <<fetchVars, dbVars, loadVars, callVars, testVars, statVars, tableVars>>
    \/ \E t \in Tasks : TaskFails(t) /\ LeaveCallable(t) /\ UNCHANGED <<fetchVars, dbVars, loadVars, callVars, testVars, statVars, tableVars>>
    \/ \E t \in Tasks : UpstreamFailed(t) /\ UNCHANGED <<fetchVars, dbVars, loadVars, restVars>>
SpecObjects == InitObjects /\ [][NextObjects]_vars

\* one run of test_api_endpoints
InitTest ==
    /\ TestInit
    /\ ClientIdle /\ DBIdle /\ DagIdle /\ LoadIdle /\ CallIdle /\ ObjIdle /\ StatIdle /\ TableIdle
NextTest ==
    \/ \E d \in FuncOutcomes :
          RunTest(d) /\ UNCHANGED <<fetchVars, dbVars, dagVars, loadVars, callVars, objVars, statVars, tableVars>>
    \/ ReturnCode /\ UNCHANGED <<fetchVars, dbVars, dagVars, loadVars, callVars, objVars, statVars, tableVars>>
SpecTest == InitTest /\ [][NextTest]_vars

\* print_statistics on a database whose tables hold the rows the loads left
InitStatistics ==
    /\ ClientIdle
    /\ schema \in {sc \in Schemas : sc.kind = "jsonb"}
    /\ table \in {SetToBag(S) : S \in SUBSET StoredRows}
    /\ txn = "idle"
    /\ clock = 0
    /\ last = NoCall
    /\ lastWrite = [k \in ColVals.id |-> "-"]
    /\ LoadInit /\ job = "print_statistics"
    /\ DagReady
    /\ RestIdle
NextStatistics ==
    \/ \E connects \in BOOLEAN :
          RunStatistics(connects) /\ UNCHANGED <<callVars, objVars, testVars, tableVars>>
    \/ \E fails \in BOOLEAN :
          StatCountOf(fails) /\ UNCHANGED <<callVars, objVars, testVars, tableVars>>
    \/ \E fails \in BOOLEAN : CallableReturns(fails) /\ UNCHANGED restVars
    \/ TaskEnds /\ UNCHANGED restVars
SpecStatistics == InitStatistics /\ [][NextStatistics]_vars

\* one run of the DAG, each running load callable writing its tables
InitTables == DagInit /\ ClientIdle /\ DBIdle /\ LoadIdle /\ RestIdle
NextTables ==
    \/ \E t \in Tasks : LoadTaskStarts(t) /\ UNCHANGED <<fetchVars, dbVars, loadVars, callVars, objVars, testVars, statVars>>
    \/ \E t \in Tasks : LoadTaskWrites(t) /\ UNCHANGED <<fetchVars, dbVars, loadVars, callVars, objVars, testVars, statVars>>
    \/ \E t \in Tasks : LoadTaskReturns(t) /\ UNCHANGED <<fetchVars, dbVars, loadVars, callVars, objVars, testVars, statVars>>
    \/ \E t \in Tasks : LoadTaskRaises(t) /\ UNCHANGED <<fetchVars, dbVars, loadVars, callVars, objVars, testVars, statVars>>
    \/ \E t \in Tasks : UpstreamFailed(t) /\ UNCHANGED <<fetchVars, dbVars, loadVars, restVars>>
SpecTables == InitTables /\ [][NextTables]_vars

----------------------------------------------------------------------------
(* Properties of the client *)

Last(s) == s[Len(s)]
Backoffs == {i \in 1..Len(sleeps) : sleeps[i].kind = "backoff"}

\* C1: when a _paginate call has returned and every request of it succeeded, all_items
\* is the concatenation of the item lists the server sent, in the order they were
\* sent: nothing dropped, reordered or deduplicated.
C1_PaginationComplete ==
    (pc = "done" /\ nfail = 0) => all_items = served

\* three pages fetched without a failure, with a repeated item across and within pages
C1_Witness ==
    /\ pc = "done" /\ nfail = 0 /\ nreq = 3
    /\ Cardinality(visited) = 3
    /\ all_items = <<2, 1, 1, 2, 1>>

\* C2: a 4xx answer other than 429 ends the _make_request call: it is the call's last
\* HTTP request and no backoff wait follows it.
C2_FailFast ==
    \A i \in 1..Len(http) :
        IsClientError(http[i].status) => (Len(http) = i /\ Cardinality(Backoffs) < i)

\* C3: _make_request never runs for an endpoint that already answered during the
\* same _paginate call (a repeated cursor ends the fetch instead).
C3_LoopGuard ==
    pc = "attempt" => cur_endpoint \notin visited

\* C4: when _make_request returns after j transient failures followed by a 2xx, it
\* returns that response's body and exactly j backoff waits were made, all of them
\* before the pacing wait of the success.
C4_RetryThenSuccess ==
    (/\ pc = "ret" /\ http # <<>> /\ Last(http).status = 200
     /\ \A i \in 1..(Len(http) - 1) : IsTransient(http[i].status))
    => /\ response = Last(http).body
       /\ Cardinality(Backoffs) = Len(http) - 1
       /\ Backoffs = 1..(Len(http) - 1)

\* two transient failures, then the page, with retry_count = 3
C4_Witness ==
    /\ pc = "ret" /\ retry_count = 3 /\ Len(http) = 3
    /\ http[1].status = 500 /\ http[2].status = 0 /\ http[3].status = 200
    /\ GetItems(response) = <<2, 1>>
    /\ Len(sleeps) = 3

\* C5: a _make_request call issues at most retry_count HTTP requests; when it has
\* used them all up without a 2xx, _paginate issues no further request and returns
\* the items of the pages fetched before, all of them and nothing else.
C5_Exhausted ==
    /\ [](Len(http) <= retry_count)
    /\ []((pc = "done" /\ response = None) => all_items = served)
    /\ [][(pc = "ret" /\ response = None)
            => (pc' = "done" /\ nreq' = nreq /\ all_items' = all_items)]_vars

\* one page fetched, then three failures on the second page
C5_Witness ==
    /\ pc = "done" /\ response = None /\ retry_count = 3
    /\ Len(http) = 3 /\ nfail = 3 /\ nreq = 4
    /\ all_items = <<2, 1>>

\* C16: within one _make_request call the wait after the k-th failed attempt, k below
\* retry_count, is 2^(k-1) seconds (1, 2, 4, ...), whatever the pacing delay; the
\* last failed attempt of a call that used up its attempts is followed by no wait.
C16_BackoffSchedule ==
    /\ \A k \in 1..Len(http) :
          (http[k].status # 200 /\ k < retry_count /\ (k < Len(http) \/ pc = "attempt"))
          => /\ k <= Len(sleeps)
             /\ sleeps[k] = [kind |-> "backoff", secs |-> 2^(k - 1)]
    /\ (http # <<>> /\ Last(http).status # 200 /\ Len(http) >= retry_count)
          => /\ pc \in {"ret", "done"}
             /\ Len(sleeps) = Len(http) - 1

\* three failed attempts with retry_count = 3: waits of 1 and 2 seconds, none after
\* the third
C16_Witness ==
    /\ retry_count = 3 /\ pc = "ret" /\ Len(http) = 3
    /\ \A k \in 1..3 : http[k].status # 200
    /\ sleeps = <<[kind |-> "backoff", secs |-> 1], [kind |-> "backoff", secs |-> 2]>>

----------------------------------------------------------------------------
(* Properties of the persistence layer *)

BatchOps == {"insert_batch", "insert_jsonb_batch", "upsert_batch"}
RowsWithKey(k) == {r \in Rows(table) : r["id"] = k}
NewRows == table' (-) table

\* C6: a batch write in which a statement or the commit fails rolls back and raises:
\* the table's rows after the call are its rows before the call, and the connection
\* is left with no transaction.
C6_FailedBatchRolledBack ==
    [][(last'.op \in BatchOps /\ (last'.result = "raised" \/ last'.calls.rollback = 1))
        => /\ table' = table
           /\ last'.result = "raised"
           /\ last'.calls.rollback = 1
           /\ last'.calls.commit + last'.calls.rollback >= 1
           /\ txn' = "idle"]_vars

\* an upsert whose first page was executed and whose second page failed, on a table
\* that held rows
C6_Witness ==
    /\ last.op = "upsert_batch" /\ last.result = "raised"
    /\ last.calls.executes = 2 /\ last.n = 2
    /\ schema.uniq = "unique"
    /\ table # EmptyBag

\* C7: a batch write called with an empty list makes no storage call (no cursor, no
\* statement, no commit, no rollback) and leaves the table and the connection's
\* transaction status as they were.
C7_EmptyBatchNoStorageCall ==
    [][(last'.op \in BatchOps /\ last'.n = 0)
        => /\ last'.calls = NoCalls
           /\ last'.result = "returned"
           /\ table' = table
           /\ txn' = txn]_vars

\* an empty upsert on a connection whose transaction is aborted, the table holding rows
C7_Witness ==
    /\ last.op = "upsert_batch" /\ last.n = 0
    /\ txn = "aborted"
    /\ table # EmptyBag

\* C8: every key a successful upsert_batch has written has exactly one row, and the
\* row's non-key column holds the value the latest such call carried for the key.
C8_UpsertLastWriterWins ==
    \A k \in ColVals.id :
        lastWrite[k] # "-"
        => /\ Cardinality(RowsWithKey(k)) = 1
           /\ \A r \in RowsWithKey(k) : CopiesIn(r, table) = 1 /\ r["val"] = lastWrite[k]

\* a two-item upsert just returned and the table holds one row, with val = "b": one
\* of the items overwrote a row
C8_Witness ==
    /\ last.op = "upsert_batch" /\ last.result = "returned" /\ last.n = 2
    /\ BagCardinality(table) = 1
    /\ lastWrite["1"] = "b" /\ lastWrite["2"] = "-"

\* C9: on a document table with no uniqueness constraint, a successful
\* insert_jsonb_batch adds exactly len(data) rows, each a document of the batch with
\* the ingestion timestamp, and keeps the rows there were: the same item persisted
\* twice gives two rows.
C9_AppendAddsEveryItem ==
    [][(last'.op = "insert_jsonb_batch" /\ last'.result = "returned"
        /\ schema = [kind |-> "jsonb", uniq |-> "none"])
        => /\ table \sqsubseteq table'
           /\ BagCardinality(table') = BagCardinality(table) + last'.n
           /\ \A r \in BagToSet(NewRows) :
                 r.created_at = clock' /\ r.data \in {Json(d) : d \in Docs}]_vars

\* one document, two rows
C9_Witness ==
    /\ schema = [kind |-> "jsonb", uniq |-> "none"]
    /\ last.op = "insert_jsonb_batch" /\ last.result = "returned"
    /\ BagCardinality(table) = 2
    /\ Cardinality({r.data : r \in Rows(table)}) = 1

\* C15: insert_batch and upsert_batch raise on a batch whose records do not all
\* have the first record's keys, or whose first record has no key: such a batch is
\* never committed, with fields dropped or filled with NULL.
C15_SchemaMismatchReported ==
    (last.op \in {"insert_batch", "upsert_batch"} /\ ~last.uniform)
    => last.result = "raised"

\* C19: a batch write that returns gives the caller the number of rows written, an
\* integer, 0 for an empty batch.
C19_ReturnsRowsWritten ==
    (last.op \in BatchOps /\ last.result = "returned")
    => /\ last.value.t = "int"
       /\ last.n = 0 => last.value.v = 0

----------------------------------------------------------------------------
(* Properties of the task graph *)

Started(t) == task_state[t] \in {"running", "up_for_retry", "success", "failed"}

\* the orderings the dependency policy names: <<a, b>> is "a before b"
PolicyOrder ==
    {<<"load_references", "load_subjects">>, <<"load_references", "load_rnu">>,
     <<"load_references", "load_plans">>, <<"load_plans", "load_announcements">>,
     <<"load_announcements", "load_applications">>,
     <<"load_announcements", "load_lots">>, <<"load_lots", "load_contracts">>,
     <<"load_contracts", "load_acts">>, <<"load_contracts", "load_payments">>}

\* C10: a task has started only if every ancestor of it has completed (here:
\* succeeded), for each ordering the policy names and for every ancestor in the
\* wiring; no task is its own ancestor; load_subjects and load_rnu are not ordered,
\* and once load_references has succeeded either of them can start whatever the
\* other is doing.
C10_DependencyOrder ==
    /\ \A e \in PolicyOrder : Started(e[2]) => task_state[e[1]] = "success"
    /\ \A t \in Tasks : Started(t) => \A a \in Ancestors(t) : task_state[a] = "success"
    /\ \A t \in Tasks : t \notin Ancestors(t)
    /\ "load_subjects" \notin Ancestors("load_rnu")
    /\ "load_rnu" \notin Ancestors("load_subjects")
    /\ (task_state["load_references"] = "success" /\ task_state["load_subjects"] = "none")
         => ENABLED StartTask("load_subjects")
    /\ (task_state["load_references"] = "success" /\ task_state["load_rnu"] = "none")
         => ENABLED StartTask("load_rnu")

\* load_subjects and load_rnu run at once while load_announcements, whose ancestor
\* load_plans has succeeded, runs too
C10_Witness ==
    /\ task_state["load_subjects"] = "running"
    /\ task_state["load_rnu"] = "running"
    /\ task_state["load_announcements"] = "running"
    /\ task_state["load_plans"] = "success"

----------------------------------------------------------------------------
(* Properties of the loads and the task callables *)

\* C11: a load whose fetch gave up or whose batch write raised gives its caller a
\* result other than None, the result of a load that fetched nothing and succeeded.
C11_FailedLoadDistinguishable ==
    step_failed => result # "None"

\* C12: no exception leaves a load; the loads of a job are entered in the job's order,
\* one after the other, each once; whatever a load's outcome the job goes on to the
\* next load, and a job that ended other than by a failed connect has entered every
\* load: run_full_etl its ten methods, load_references every reference table.
C12_FailureIsolation ==
    /\ [](result # "raised")
    /\ [](job \in Jobs => invoked = SubSeq(Steps[job], 1, step))
    /\ []((cpc = "ended" /\ job \in Jobs /\ conn # "none")
            => (outcome = "returned" /\ invoked = Steps[job]))
    /\ []((cpc = "step" /\ step < Len(Steps[job])) => ENABLED CallApi)
    /\ [][(cpc = "fetching" /\ cpc' # "fetching") => cpc' = "step"]_vars

\* run_full_etl has entered load_subjects after a load of load_references failed and
\* another wrote a row
C12_Witness ==
    /\ job = "run_full_etl" /\ cpc = "fetching"
    /\ any_failed /\ ~step_failed
    /\ step = Len(RefTables) + 1
    /\ invoked[step].method = "load_subjects"
    /\ table # EmptyBag

\* C13: a load whose API method returned an empty list makes no call to the database
\* and raises nothing: the table, the connection and the latest database call are as
\* they were, and the job goes on.
C13_EmptyFetchNoWrite ==
    [][(cpc = "fetching" /\ cpc' # "fetching" /\ fetched' = <<>>)
        => /\ writes' = 0 /\ commits' = 0
           /\ table' = table /\ txn' = txn /\ last' = last
           /\ result' = "None"
           /\ cpc' = "step"]_vars

\* a reference table's fetch succeeded with no item, after an earlier table's load
\* wrote a row
C13_Witness ==
    /\ job = "load_references" /\ cpc = "step" /\ step >= 2
    /\ result = "None" /\ fetched = <<>> /\ ~step_failed
    /\ response # None
    /\ table # EmptyBag /\ last.op = "insert_jsonb_batch"

\* C14: a task callable that has ended has no open connection, and a connection of a
\* task callable is open only while the callable runs.
C14_ConnectionClosed ==
    /\ (job \in Tasks /\ cpc = "ended") => conn # "open"
    /\ (job \in Tasks /\ conn = "open") => cpc \in {"step", "fetching"}
    /\ (job \in Tasks /\ cpc = "ended" /\ outcome = "returned") => conn = "closed"

\* load_plans ended after its batch write raised and its count was taken: the
\* connection it opened is closed
C14_Witness ==
    /\ job = "load_plans" /\ cpc = "ended" /\ outcome = "returned"
    /\ conn = "closed"
    /\ step_failed /\ writes = 1 /\ commits = 0
    /\ last.op = "get_table_count"

\* C18: when a load of a task's callable failed, no task downstream of it in the DAG
\* is started.
C18_FailedLoadCancelsDependents ==
    \A d \in Tasks :
        (job \in Tasks /\ job \in Ancestors(d) /\ any_failed) => ~Started(d)

\* C20: a load issues at most one batch write and one commit, the write only once the
\* API method has returned, and no HTTP request after it.
C20_FetchThenOneWrite ==
    /\ [](writes <= 1 /\ commits <= 1)
    /\ [](writes > 0 => (pc = "done" /\ cpc # "fetching"))
    /\ [][writes' > writes => (pc = "done" /\ pc' = "done" /\ nreq' = nreq)]_vars
    /\ [][nreq' > nreq => (writes = 0 /\ writes' = 0)]_vars

\* two pages fetched in three requests, then one batch write of the two items, with
\* one commit
C20_Witness ==
    /\ job = "load_subjects" /\ cpc = "step"
    /\ nreq = 3 /\ nfail = 1 /\ Len(fetched) = 2
    /\ writes = 1 /\ commits = 1
    /\ last.op = "insert_jsonb_batch" /\ last.n = 2 /\ last.result = "returned"

\* C21: run_full_etl's order is a schedule of the DAG: for every edge A >> B between
\* load tasks, when run_full_etl enters a load of B every load of A has been entered
\* before it, and so has ended.
C21_SequentialOrderRespectsDag ==
    job = "run_full_etl" =>
        \A e \in Edges :
            (e[1] \in LoadTasks /\ e[2] \in LoadTasks) =>
                \A i \in 1..Len(invoked) :
                    invoked[i].method = e[2] =>
                        Cardinality({j \in 1..(i - 1) : invoked[j].method = e[1]})
                            = Len(LoadsOf(e[1]))

\* run_full_etl has returned, every load entered
C21_Witness ==
    /\ job = "run_full_etl" /\ cpc = "ended" /\ outcome = "returned"
    /\ Len(invoked) = Len(RefTables) + 9
    /\ invoked[Len(invoked)].method = "load_payments"

\* the pages a _paginate call has requested: those answered 2xx and, when the latest
\* _make_request gave up, the one it gave up on
PagesVisited == Cardinality(visited) + (IF response = None THEN 1 ELSE 0)

\* C22: against a finite chain of distinct cursors a _paginate call ends; it goes on
\* after a page that has a next_page, it ends on a page that has none or on a page
\* whose retry_count attempts all failed, and it has issued at most retry_count
\* requests for each page it requested.
C22_PaginateTerminates ==
    /\ (pc = "call") ~> (pc = "done")
    /\ [](pc = "done" => nreq <= retry_count * PagesVisited)
    /\ []((pc = "ret" /\ response = None)
            => /\ Len(http) = retry_count
               /\ \A i \in 1..Len(http) : http[i].status # 200)
    /\ [][(pc = "ret" /\ pc' = "done")
          => (response = None \/ NoNextPage(GetNextPage(response)))]_vars
    /\ [][(pc = "ret" /\ response # None /\ ~NoNextPage(GetNextPage(response)))
          => pc' = "call"]_vars

\* a call of a client with two attempts per page: the first page answered at the
\* second attempt, the second page given up on after two failures
C22_Witness ==
    /\ retry_count = 2 /\ pc = "done" /\ response = None
    /\ Cardinality(visited) = 1 /\ nreq = 4 /\ nfail = 3

\* C23: a 2xx page with no item and a non-empty next_page does not end the
\* _paginate call: all_items stays as it is and the cursor is requested next; the call
\* ends only on a failed request or on a page whose next_page is absent, null or empty.
C23_EmptyPageContinues ==
    /\ [][(/\ pc = "ret" /\ response # None
           /\ GetItems(response) = <<>>
           /\ GetNextPage(response) # None
           /\ GetNextPage(response).v # <<>>)
          => /\ pc' = "call"
             /\ all_items' = all_items
             /\ next_page' = GetNextPage(response)]_vars
    /\ [][(pc = "call" /\ next_page # None /\ next_page.v # <<>>)
          => cur_endpoint' = Replace(next_page.v)]_vars
    /\ [][(pc = "ret" /\ pc' = "done")
          => (response = None \/ GetNextPage(response) = None
              \/ GetNextPage(response).v = <<>>)]_vars

\* three pages answered, one item in all: a page with no item was followed by a request
C23_Witness ==
    /\ pc = "done" /\ nfail = 0 /\ nreq = 3
    /\ Cardinality(visited) = 3
    /\ all_items = <<1>>
    /\ response # None /\ GetItems(response) = <<1>>

\* C24: insert_batch and upsert_batch name the keys of the batch's first item as the
\* columns and build one value row per item over exactly those columns: the item's
\* value where it has the field, null where it lacks it, and nothing for a field the
\* first item lacks.
C24_ColumnsOfFirstItem ==
    arg_data # <<>> =>
        /\ sql_columns = DOMAIN arg_data[1]
        /\ Len(sql_values) = Len(arg_data)
        /\ \A i \in 1..Len(arg_data) :
              /\ DOMAIN sql_values[i] = DOMAIN arg_data[1]
              /\ \A c \in DOMAIN arg_data[1] :
                    sql_values[i][c] = IF c \in DOMAIN arg_data[i] THEN arg_data[i][c]
                                       ELSE NULL

\* insert_batch has written a batch whose second item lacks the first item's field and
\* has a field of its own
C24_Witness ==
    /\ last.op = "insert_batch" /\ last.result = "returned"
    /\ Len(arg_data) = 2
    /\ DOMAIN arg_data[1] = {"id"} /\ DOMAIN arg_data[2] = {"val"}
    /\ sql_values[2] = [c \in {"id"} |-> NULL]

\* C25: on a table with a uniqueness constraint, the second insert_jsonb_batch or
\* insert_batch of a batch returns and leaves the table as the first one left it.
C25_AppendIdempotent ==
    again => /\ last.result = "returned"
             /\ table = after_first
             /\ txn = "idle"

\* two documents persisted, and persisted again at a later time
C25_Witness ==
    /\ again /\ last.op = "insert_jsonb_batch" /\ last.n = 2
    /\ clock = 1
    /\ BagCardinality(table) = 2

\* C26: two callables that run at the same time hold no object in common; a running
\* callable holds a connection of its own (and a load callable a client of its own),
\* and a callable that does not run holds none.
C26_NoSharedObjects ==
    /\ \A t \in Tasks, u \in Tasks :
          (t # u /\ task_state[t] = "running" /\ task_state[u] = "running")
              => ({db_of[t], api_of[t]} \cap {db_of[u], api_of[u]}) \ {0} = {}
    /\ \A t \in Tasks :
          IF task_state[t] = "running"
          THEN /\ db_of[t] # 0
               /\ t \in LoadTasks => (api_of[t] # 0 /\ api_of[t] # db_of[t])
          ELSE db_of[t] = 0 /\ api_of[t] = 0

\* three load callables run at the same time, after a connection was given up
C26_Witness ==
    /\ task_state["load_subjects"] = "running"
    /\ task_state["load_rnu"] = "running"
    /\ task_state["load_plans"] = "running"
    /\ Cardinality(Live) = 6

\* C27: a client's retry_count is at least 1, and a _make_request call that returned
\* None has issued at least one HTTP request.
C27_AtLeastOneAttempt ==
    /\ retry_count >= 1
    /\ (pc = "ret" /\ response = None) => Len(http) >= 1

\* C28: in test_api_endpoints each test that the loop has gone through is counted
\* once, in success, empty or failed, and the function returns 0 exactly when failed
\* is 0.
C28_EveryTestCountedOnce ==
    /\ results.success + results.empty + results.failed = test_i
    /\ returned # None => (returned = Num(0) <=> results.failed = 0)

\* C29: print_statistics has started only if each of the nine entity load tasks has
\* completed.
C29_StatisticsAfterAllLoads ==
    Started("print_statistics") =>
        \A t \in LoadTasks \ {"load_references"} :
            task_state[t] \in {"success", "failed", "upstream_failed"}

\* C30: between GoszakupDB calls the connection has no transaction, open or aborted.
C30_NoTransactionLeftOpen ==
    txn = "idle"

\* C31: in print_statistics the count reported for a table whose own SELECT raises
\* nothing is the table's row count, whatever the count queries before it did.
C31_CountsIndependent ==
    \A i \in 1..Len(stats) :
        (i <= Len(stat_errors) /\ ~stat_errors[i]) => stats[i] = BagCardinality(table)

\* C32: when the fetch of a load gave up on a page after pages that carried items, the
\* load hands the items of the pages answered to insert_jsonb_batch as one batch, as
\* it does after a complete fetch; unless the storage raises, the batch is committed
\* and its documents are in the table; the load ends without an exception and the
\* callable goes on.
C32_PartialFetchPersisted ==
    [][(/\ cpc = "fetching" /\ cpc' # "fetching"
        /\ response = None /\ visited # {} /\ served # <<>>)
       => /\ fetched' = AsDocs(served)
          /\ writes' = 1
          /\ last'.op = "insert_jsonb_batch" /\ last'.n = Len(served)
          /\ last'.result = "returned"
               => /\ commits' = 1
                  /\ \A i \in 1..Len(served) :
                        \E r \in Rows(table') : r.data = Json(AsDoc(served[i]))
          /\ result' = "None"
          /\ cpc' = "step"
          /\ outcome' = outcome]_vars

\* load_contracts: the first page answered, the second given up on after three
\* failures, the first page's item committed and the load ended without an exception
C32_Witness ==
    /\ job = "load_contracts" /\ cpc = "step" /\ result = "None"
    /\ response = None /\ Cardinality(visited) = 1
    /\ nreq = 4 /\ nfail = 3
    /\ writes = 1 /\ commits = 1
    /\ last.op = "insert_jsonb_batch" /\ last.result = "returned"
    /\ BagCardinality(table) = 1

\* the batch writes a task made to a table, as the table records them
WritesOf(t, tbl) ==
    LET mine == SelectSeq(written_by[t], LAMBDA w : w.table = tbl)
    IN  [i \in 1..Len(mine) |-> [task |-> t]]

\* C33: no table is written by two tasks, and what a table holds is what its one
\* writer wrote to it, in the writer's own order, however the tasks interleave.
C33_OneWriterPerTable ==
    /\ \A t \in Tasks, u \in Tasks : t # u => TablesOf(t) \cap TablesOf(u) = {}
    /\ \A tbl \in AllTables :
          /\ \A i \in 1..Len(contents[tbl]) : contents[tbl][i].task = WriterOf[tbl]
          /\ contents[tbl] = WritesOf(WriterOf[tbl], tbl)

\* load_applications, load_lots and load_subjects run at the same time and each has
\* written its table
C33_Witness ==
    /\ task_state["load_applications"] = "running"
    /\ task_state["load_lots"] = "running"
    /\ task_state["load_subjects"] = "running"
    /\ contents["applications"] = <<[task |-> "load_applications"]>>
    /\ contents["lots"] = <<[task |-> "load_lots"]>>
    /\ contents["subjects"] = <<[task |-> "load_subjects"]>>

====
